---- MODULE Spec2Model ----
(***************************************************************************)
(* Model of src/src/replication_monitor.py: class ReplicationMonitor.      *)
(*                                                                         *)
(* The monitor's state is its connections dict, metrics_history and alerts *)
(* lists.  The primary's two tables live in the external store and are     *)
(* modelled as the part of the store this program writes.  The replicas    *)
(* are only read, and what they answer is an input of each poll.           *)
(*                                                                         *)
(*   Spec      the life of one monitor: its seven methods, run_monitoring  *)
(*             among them, called from outside in any order; runs of at    *)
(*             most two ticks                                              *)
(*   SpecOps   the six methods below run_monitoring called in any order,   *)
(*             on a wide choice of answers from the replicas               *)
(*   LiveSpec  run_monitoring called any number of times, among connects   *)
(*             and polls, for up to MaxDuration seconds, with the          *)
(*             fairness of a single thread that keeps executing its next   *)
(*             statement                                                   *)
(***************************************************************************)
EXTENDS Integers, Sequences, FiniteSets, TLC

VARIABLES
    connections,   \* self.connections: the regions that have a connection
    history,       \* self.metrics_history
    alerts,        \* self.alerts
    primary,       \* the primary's replication_test and transactions tables
    now,           \* wall clock, whole seconds
    pc,            \* position of run_monitoring ("idle": not running)
    duration,      \* run_monitoring's argument
    start_time,    \* run_monitoring's local start_time
    iteration,     \* run_monitoring's local iteration
    status,        \* run_monitoring's local status (<<>> before the first poll)
    ret,           \* the last method call: its name, arguments and outcome
    calls,         \* number of method calls made so far
    out            \* what has been printed: counts and the last block

vars == <<connections, history, alerts, primary, now, pc, duration,
          start_time, iteration, status, ret, calls, out>>

----------------------------------------------------------------------------
(* Program constants *)

LagThreshold == 10
CriticalLag == 50
SeedRows == 1000
WritesPerTick == 5
DefaultWrites == 10
GraceSleep == 3
TickSleep == 5
SummaryTail == 5

(* Bounds of the model *)

MaxCalls == 3        \* method calls after which no call from outside starts
MaxDuration == 11    \* largest duration given to run_monitoring

----------------------------------------------------------------------------
(* __init__ *)

PrimaryRegion == "us-west"
ReplicaRegions == <<"us-east", "eu-west">>
Regions == {"us-west", "us-east", "eu-west"}

(* datetime.now(): the second and the microsecond.  isoformat() writes the
   microsecond unless it is 0. *)
Stamp(sec, us) == [sec |-> sec, micro |-> us]

(* A fetched column: SQL NULL (Python None) or an integer. *)
SqlNull == [null |-> TRUE, val |-> 0]
SqlInt(v) == [null |-> FALSE, val |-> v]

(* "fetchone()[0] or 0" *)
OrZero(col) == IF col.null \/ col.val = 0 THEN 0 ELSE col.val

(* SELECT COUNT( * ) / SELECT MAX(id) on a table with `count` rows whose
   largest id is `last_id` *)
SelectCount(tbl) == tbl.count
SelectMaxId(tbl) == IF tbl.count = 0 THEN SqlNull ELSE SqlInt(tbl.last_id)

----------------------------------------------------------------------------
(* create_alert *)

Severity_Inclusive(lag) == IF lag <= CriticalLag THEN "WARNING" ELSE "CRITICAL"

Severity(lag) == IF lag < CriticalLag THEN "WARNING" ELSE "CRITICAL"

Message(lag) == <<"High replication lag detected: ", lag, " records behind">>

MakeAlert(region, lag, t) ==
    [timestamp |-> t,
     region    |-> region,
     severity  |-> Severity(lag),
     message   |-> Message(lag),
     lag_count |-> lag]

AppendAlert_Front(als, region, lag, t) == <<MakeAlert(region, lag, t)>> \o als

AppendAlert(als, region, lag, t) == Append(als, MakeAlert(region, lag, t))

----------------------------------------------------------------------------
(* check_replication_status *)

IsHealthy_Inclusive(lag_records) == lag_records <= LagThreshold

IsHealthy_NonNegative(lag_records) ==
    0 <= lag_records /\ lag_records < LagThreshold

IsHealthy(lag_records) == lag_records < LagThreshold

ReplicaStatus(region, primary_count, primary_max_id, o) ==
    LET replica_count  == o.count
        replica_max_id == OrZero(o.max_id)
        lag_records    == primary_count - replica_count
        lag_ids        == primary_max_id - replica_max_id
    IN  [region       |-> region,
         record_count |-> replica_count,
         max_id       |-> replica_max_id,
         lag_records  |-> lag_records,
         lag_ids      |-> lag_ids,
         is_healthy   |-> IsHealthy(lag_records)]

ErrorStatus(region) ==
    [region |-> region, error |-> "query failed", is_healthy |-> FALSE]

(* The try/except of one replica: the entry appended to status['replicas']
   and the alert list after it. *)
CheckReplica(region, primary_count, primary_max_id, o, als, t) ==
    IF o.query_ok
    THEN LET rs == ReplicaStatus(region, primary_count, primary_max_id, o)
         IN  [entry  |-> rs,
              alerts |-> IF ~rs.is_healthy
                         THEN AppendAlert(als, region, rs.lag_records, t)
                         ELSE als]
    ELSE [entry |-> ErrorStatus(region), alerts |-> als]

(* The loop without its try: a failed query leaves the method. *)
RECURSIVE PollReplicas_NoTry(_, _, _, _, _, _, _, _, _)
PollReplicas_NoTry(i, conns, primary_count, primary_max_id, routs, reps, als, sec, us) ==
    IF i > Len(ReplicaRegions)
    THEN [raised |-> FALSE, replicas |-> reps, alerts |-> als]
    ELSE LET region == ReplicaRegions[i]
             o      == routs[region]
         IN  IF region \notin conns \/ ~o.cursor_ok \/ ~o.query_ok
             THEN [raised |-> TRUE, replicas |-> reps, alerts |-> als]
             ELSE LET r == CheckReplica(region, primary_count,
                                        primary_max_id, o, als,
                                        Stamp(sec, us[i + 1]))
                      reps1 == Append(reps, r.entry)
                  IN  IF ~o.close_ok
                      THEN [raised |-> TRUE, replicas |-> reps1,
                            alerts |-> r.alerts]
                      ELSE PollReplicas_NoTry(i + 1, conns, primary_count,
                                              primary_max_id, routs, reps1,
                                              r.alerts, sec, us)

(* The for loop over the replicas, from the i-th on.  connections[region],
   cursor() and close() are outside the try: a failure there leaves the
   method by an exception. *)
RECURSIVE PollReplicas(_, _, _, _, _, _, _, _, _)
PollReplicas(i, conns, primary_count, primary_max_id, routs, reps, als, sec, us) ==
    IF i > Len(ReplicaRegions)
    THEN [raised |-> FALSE, replicas |-> reps, alerts |-> als]
    ELSE LET region == ReplicaRegions[i]
             o      == routs[region]
         IN  IF region \notin conns \/ ~o.cursor_ok
             THEN [raised |-> TRUE, replicas |-> reps, alerts |-> als]
             ELSE LET r == CheckReplica(region, primary_count,
                                        primary_max_id, o, als,
                                        Stamp(sec, us[i + 1]))
                      reps1 == Append(reps, r.entry)
                  IN  IF ~o.close_ok
                      THEN [raised |-> TRUE, replicas |-> reps1,
                            alerts |-> r.alerts]
                      ELSE PollReplicas(i + 1, conns, primary_count,
                                        primary_max_id, routs, reps1,
                                        r.alerts, sec, us)

(* The whole method.  `pout` says whether the primary's cursor and queries
   work, `routs` what each replica does, `sec` is the clock's second and
   `us` the microseconds datetime.now() reads: us[1] for the status and
   us[i + 1] for the alert of the i-th replica.  The result carries the
   status built (partial when raised), the alert list and the history
   after. *)
PollResult(conns, tbl, hist, als, pout, routs, sec, us) ==
    IF PrimaryRegion \notin conns \/ ~pout \/ ~tbl.exists
    THEN [raised |-> TRUE, status |-> <<>>, alerts |-> als, history |-> hist]
    ELSE LET primary_count  == SelectCount(tbl)
             primary_max_id == OrZero(SelectMaxId(tbl))
             r  == PollReplicas(1, conns, primary_count, primary_max_id,
                                routs, <<>>, als, sec, us)
             st == [timestamp |-> Stamp(sec, us[1]),
                    primary   |-> [region       |-> PrimaryRegion,
                                   record_count |-> primary_count,
                                   max_id       |-> primary_max_id],
                    replicas  |-> r.replicas]
         IN  [raised  |-> r.raised,
              status  |-> st,
              alerts  |-> r.alerts,
              history |-> IF r.raised THEN hist ELSE Append(hist, st)]

----------------------------------------------------------------------------
(* connect_all *)

ConnectAllConnections(conns, oks) == conns \cup {r \in Regions : oks[r]}

ConnectAllResult(conns) == Cardinality(conns) = Cardinality(Regions)

(* setup_primary: one script, sent as one statement *)

SeedTables == [exists |-> TRUE, count |-> 0, last_id |-> 0, txn |-> SeedRows]

(* The script without its DROP TABLE statements. *)
SetupResult_NoDrop(conns, tbl, ok) ==
    IF PrimaryRegion \notin conns \/ ~ok
    THEN [raised |-> TRUE, primary |-> tbl]
    ELSE [raised |-> FALSE,
          primary |-> [tbl EXCEPT !.exists = TRUE, !.txn = @ + SeedRows]]

SetupResult(conns, tbl, ok) ==
    IF PrimaryRegion \notin conns \/ ~ok
    THEN [raised |-> TRUE, primary |-> tbl]
    ELSE [raised |-> FALSE, primary |-> SeedTables]

(* simulate_writes: `good` inserts succeed before one fails (good >= count:
   none fails); autocommit keeps the rows already inserted *)

InsertRows(tbl, n) ==
    [tbl EXCEPT !.count = @ + n, !.last_id = @ + n]

WriteResult(conns, tbl, count, good) ==
    IF PrimaryRegion \notin conns
    THEN [raised |-> TRUE, primary |-> tbl]
    ELSE IF ~tbl.exists
    THEN [raised |-> count > 0, primary |-> tbl]
    ELSE IF good < count
    THEN [raised |-> TRUE, primary |-> InsertRows(tbl, good)]
    ELSE [raised |-> FALSE, primary |-> InsertRows(tbl, count)]

(* print_status: the block printed for `st` *)

HealthLabel(replica) == IF replica.is_healthy THEN "HEALTHY" ELSE "LAGGING"

ReplicaLines(replica) ==
    IF "error" \in DOMAIN replica
    THEN [region |-> replica.region, label |-> "ERROR",
          detail |-> <<replica.error>>]
    ELSE [region |-> replica.region, label |-> HealthLabel(replica),
          detail |-> <<replica.record_count, replica.max_id,
                       replica.lag_records>>
                     \o (IF replica.lag_records > 0
                         THEN <<replica.lag_records>> ELSE <<>>)]

(* a['timestamp'] > status['timestamp'][:19], as strings: the alert is of a
   later second, or of the same second and written with its microsecond
   (longer than the 19 characters it is compared with). *)
IsRecent(t, st_t) ==
    \/ t.sec > st_t.sec
    \/ t.sec = st_t.sec /\ t.micro # 0

RecentAlerts(als, st) ==
    Cardinality({i \in 1..Len(als) : IsRecent(als[i].timestamp, st.timestamp)})

FormatStatus(st, als) ==
    [block    |-> "status",
     at       |-> st.timestamp.sec,
     primary  |-> <<st.primary.record_count, st.primary.max_id>>,
     replicas |-> [i \in 1..Len(st.replicas) |-> ReplicaLines(st.replicas[i])],
     active   |-> RecentAlerts(als, st)]

(* The summary run_monitoring prints at its end *)

LastAlerts(als) ==
    SubSeq(als, IF Len(als) > SummaryTail THEN Len(als) - SummaryTail + 1 ELSE 1,
           Len(als))

FormatSummary(d, hist, als) ==
    [block   |-> "summary",
     duration |-> d,
     metrics |-> Len(hist),
     total   |-> Len(als),
     tail    |-> [i \in 1..Len(LastAlerts(als)) |->
                     <<LastAlerts(als)[i].timestamp.sec, LastAlerts(als)[i].region,
                       LastAlerts(als)[i].message>>]]

----------------------------------------------------------------------------
(* Inputs *)

TableOf(c) == [count |-> c, last_id |-> c]

(* What a replica can answer when the primary was seen with `pcount` rows. *)
LagSamples == {-3, 0, 9, 10, 50, 60}

Answer(cursor_ok, query_ok, c, close_ok) ==
    [cursor_ok |-> cursor_ok, query_ok |-> query_ok, count |-> c,
     max_id |-> SelectMaxId(TableOf(c)), close_ok |-> close_ok]

NoCursor == Answer(FALSE, FALSE, 0, TRUE)
QueryError == Answer(TRUE, FALSE, 0, TRUE)

RichOutcomes(pcount) ==
    {Answer(TRUE, TRUE, pcount - d, TRUE) : d \in {x \in LagSamples : pcount - x >= 0}}
    \cup {NoCursor, QueryError, Answer(TRUE, TRUE, 0, FALSE)}

WriteCounts == {WritesPerTick, DefaultWrites, CriticalLag}

AlertLags == {10, 49, 50, 60}

Durations == {0, TickSleep, MaxDuration}
ShortDurations == {0, TickSleep, TickSleep + 1}

(* Seconds a tick may take beyond its sleep. *)
TickExtra == {0, 1}

(* Microseconds the clock may show. *)
Micros == {0, 250000}
OffSecond == {250000}

(* What datetime.now() shows at the reads of one poll: us[1] for the status,
   us[i + 1] for the alert of the i-th replica. *)
SameClocks == {[i \in 1..(Len(ReplicaRegions) + 1) |-> u] : u \in Micros}
OffClocks == {[i \in 1..(Len(ReplicaRegions) + 1) |-> u] : u \in OffSecond}

(* A replica that has applied nothing since the seed, and a failed query. *)
FewOutcomes(pcount) == {Answer(TRUE, TRUE, 0, TRUE), QueryError}

(* What a replica may answer to a poll: the wide choice or the narrow one. *)
Outcomes(wide, pcount) ==
    IF wide THEN RichOutcomes(pcount) ELSE FewOutcomes(pcount)

AllOks == [Regions -> BOOLEAN]
FewOks == {[r \in Regions |-> TRUE], [r \in Regions |-> r # "eu-west"]}

(* The inputs of a poll are the answers it asks for: an answer the method
   never reads (its connection is missing, or the method has raised before
   reaching it) is fixed to NoCursor, so that one call is one input; the
   answers it reads are drawn from `Answers`. *)
PrimaryRead(conns, tbl) == PrimaryRegion \in conns /\ tbl.exists

RECURSIVE ReplicaRead(_, _, _, _, _)
ReplicaRead(i, conns, tbl, pout, routs) ==
    /\ ReplicaRegions[i] \in conns
    /\ IF i = 1
       THEN PrimaryRead(conns, tbl) /\ pout
       ELSE /\ ReplicaRead(i - 1, conns, tbl, pout, routs)
            /\ routs[ReplicaRegions[i - 1]].cursor_ok
            /\ routs[ReplicaRegions[i - 1]].close_ok

(* The poll makes an alert for the i-th replica, and reads the clock for it. *)
AlertRead(i, conns, tbl, pout, routs) ==
    /\ ReplicaRead(i, conns, tbl, pout, routs)
    /\ routs[ReplicaRegions[i]].cursor_ok
    /\ routs[ReplicaRegions[i]].query_ok
    /\ ~IsHealthy(SelectCount(tbl) - routs[ReplicaRegions[i]].count)

PollInputs(conns, tbl, pout, routs, Answers) ==
    /\ PrimaryRead(conns, tbl) \/ pout
    /\ \A i \in 1..Len(ReplicaRegions) :
          IF ReplicaRead(i, conns, tbl, pout, routs)
          THEN routs[ReplicaRegions[i]] \in Answers
          ELSE routs[ReplicaRegions[i]] = NoCursor

(* The microseconds the poll reads, 0 standing for those it does not. *)
ClockRead(conns, tbl, pout, routs, us) ==
    [i \in 1..(Len(ReplicaRegions) + 1) |->
        IF i = 1
        THEN IF PrimaryRead(conns, tbl) /\ pout THEN us[1] ELSE 0
        ELSE IF AlertRead(i - 1, conns, tbl, pout, routs) THEN us[i] ELSE 0]

(* The primary's tables before this program touches them. *)
PriorTables ==
    {[exists |-> FALSE, count |-> 0, last_id |-> 0, txn |-> 0],
     [exists |-> TRUE, count |-> 7, last_id |-> 9, txn |-> SeedRows + 3],
     [exists |-> TRUE, count |-> SeedRows, last_id |-> SeedRows, txn |-> SeedRows]}

NoCall == [op |-> "none", args |-> <<>>, raised |-> FALSE, value |-> <<>>]
NoOutput == [reports |-> 0, summaries |-> 0, last |-> <<>>]

----------------------------------------------------------------------------
(* The methods, each as one step.  `next` is where run_monitoring goes on
   when the method returns and `exc` where it goes when it raises; a call
   from outside run_monitoring has both "idle". *)

frame == <<duration, start_time, iteration>>

Call(op, args, raised, value) ==
    /\ ret' = [op |-> op, args |-> args, raised |-> raised, value |-> value]
    /\ calls' = calls + 1

connect_all(oks, next, exc) ==
    LET conns == ConnectAllConnections(connections, oks)
        ok    == ConnectAllResult(conns)
    IN  /\ connections' = conns
        /\ Call("connect_all", oks, FALSE, ok)
        /\ pc' = IF ok THEN next ELSE exc
        /\ UNCHANGED <<history, alerts, primary, now, status, out>>

setup_primary(ok, next, exc) ==
    LET r == SetupResult(connections, primary, ok)
    IN  /\ primary' = r.primary
        /\ Call("setup_primary", [ok |-> ok, before |-> primary], r.raised, <<>>)
        /\ pc' = IF r.raised THEN exc ELSE next
        /\ UNCHANGED <<connections, history, alerts, now, status, out>>

simulate_writes(count, good, next, exc) ==
    LET r == WriteResult(connections, primary, count, good)
    IN  /\ primary' = r.primary
        /\ Call("simulate_writes", <<count, good>>, r.raised, <<>>)
        /\ pc' = IF r.raised THEN exc ELSE next
        /\ UNCHANGED <<connections, history, alerts, now, status, out>>

check_replication_status(pout, routs, us, next, exc) ==
    LET r == PollResult(connections, primary, history, alerts, pout, routs,
                        now, us)
    IN  /\ history' = r.history
        /\ alerts' = r.alerts
        /\ Call("check_replication_status",
                [primary |-> pout, replicas |-> routs,
                 clock |-> ClockRead(connections, primary, pout, routs, us)],
                r.raised, r.status)
        /\ pc' = IF r.raised THEN exc ELSE next
        /\ status' = IF r.raised \/ next = "idle" THEN status ELSE r.status
        /\ UNCHANGED <<connections, primary, now, out>>

create_alert(region, lag, us) ==
    /\ alerts' = AppendAlert(alerts, region, lag, Stamp(now, us))
    /\ Call("create_alert", <<region, lag, us>>, FALSE, <<>>)
    /\ UNCHANGED <<connections, history, primary, now, status, out>>

print_status(st, next) ==
    /\ out' = [out EXCEPT !.reports = @ + 1, !.last = FormatStatus(st, alerts)]
    /\ Call("print_status", st, FALSE, <<>>)
    /\ pc' = next
    /\ UNCHANGED <<connections, history, alerts, primary, now, status>>

----------------------------------------------------------------------------
(* run_monitoring, statement by statement *)

Even_Odd(n) == n % 2 = 1

Even(n) == n % 2 = 0

RunConnect(Oks) ==
    /\ pc = "start"
    /\ \E oks \in Oks : connect_all(oks, "seed", "aborted")
    /\ UNCHANGED frame

RunSeed ==
    /\ pc = "seed"
    /\ \E ok \in BOOLEAN : setup_primary(ok, "grace", "crashed")
    /\ UNCHANGED frame

RunGrace ==
    /\ pc = "grace"
    /\ now' = now + GraceSleep
    /\ start_time' = now'
    /\ iteration' = 0
    /\ pc' = "loop"
    /\ UNCHANGED <<connections, history, alerts, primary, duration, status,
                   ret, calls, out>>

LoopTest_Inclusive(t, t0, d) == t - t0 <= d

LoopTest(t, t0, d) == t - t0 < d

RunLoop ==
    /\ pc = "loop"
    /\ IF LoopTest(now, start_time, duration)
       THEN /\ iteration' = iteration + 1
            /\ pc' = IF Even(iteration') THEN "write" ELSE "poll"
       ELSE /\ iteration' = iteration
            /\ pc' = "summary"
    /\ UNCHANGED <<connections, history, alerts, primary, now, duration,
                   start_time, status, ret, calls, out>>

RunWrite ==
    /\ pc = "write"
    /\ \E good \in {2, WritesPerTick} :
          simulate_writes(WritesPerTick, good, "poll", "crashed")
    /\ UNCHANGED frame

RunPoll(wide, Clocks) ==
    /\ pc = "poll"
    /\ \E pout \in BOOLEAN :
       \E routs \in [Regions \ {PrimaryRegion} ->
                         Outcomes(wide, primary.count) \cup {NoCursor}] :
       \E us \in Clocks :
          /\ PollInputs(connections, primary, pout, routs,
                        Outcomes(wide, primary.count))
          /\ check_replication_status(pout, routs, us,
              IF Even(iteration) THEN "report" ELSE "sleep", "crashed")
    /\ UNCHANGED frame

RunReport ==
    /\ pc = "report"
    /\ print_status(status, "sleep")
    /\ UNCHANGED frame

RunSleep ==
    /\ pc = "sleep"
    /\ \E j \in TickExtra : now' = now + TickSleep + j
    /\ pc' = "loop"
    /\ UNCHANGED <<connections, history, alerts, primary, duration,
                   start_time, iteration, status, ret, calls, out>>

RunSummary ==
    /\ pc = "summary"
    /\ out' = [out EXCEPT !.summaries = @ + 1,
                          !.last = FormatSummary(duration, history, alerts)]
    /\ pc' = "done"
    /\ UNCHANGED <<connections, history, alerts, primary, now, duration,
                   start_time, iteration, status, ret, calls>>

RunStep(Oks, wide, Clocks) ==
    \/ RunConnect(Oks)
    \/ RunSeed
    \/ RunGrace
    \/ RunLoop
    \/ RunWrite
    \/ RunPoll(wide, Clocks)
    \/ RunReport
    \/ RunSleep
    \/ RunSummary

(* __init__: a new monitor, and the primary's tables as it finds them *)

Fresh ==
    /\ connections = {}
    /\ history = <<>>
    /\ alerts = <<>>
    /\ primary \in PriorTables
    /\ now = 0
    /\ start_time = 0
    /\ iteration = 0
    /\ status = <<>>
    /\ ret = NoCall
    /\ calls = 0
    /\ out = NoOutput

----------------------------------------------------------------------------
(* The methods called from outside, in any order.  No call starts once
   MaxCalls method calls have been made.  Each takes the inputs it chooses
   among as a parameter. *)

Returned == {"done", "aborted", "crashed"}

Outside == pc \in {"idle"} \cup Returned /\ calls < MaxCalls

CallConnectAll(Oks) ==
    /\ Outside
    /\ \E oks \in Oks : connect_all(oks, "idle", "idle")
    /\ UNCHANGED frame

CallSetupPrimary ==
    /\ Outside
    /\ \E ok \in BOOLEAN : setup_primary(ok, "idle", "idle")
    /\ UNCHANGED frame

CallSimulateWrites(Counts) ==
    /\ Outside
    /\ \E count \in Counts : \E good \in {2, count} :
          simulate_writes(count, good, "idle", "idle")
    /\ UNCHANGED frame

CallCheck(wide, Clocks) ==
    /\ Outside
    /\ \E pout \in BOOLEAN :
       \E routs \in [Regions \ {PrimaryRegion} ->
                         Outcomes(wide, primary.count) \cup {NoCursor}] :
       \E us \in Clocks :
          /\ PollInputs(connections, primary, pout, routs,
                        Outcomes(wide, primary.count))
          /\ check_replication_status(pout, routs, us, "idle", "idle")
    /\ UNCHANGED frame

CallCreateAlert(Lags, Us) ==
    /\ Outside
    /\ \E i \in 1..Len(ReplicaRegions) : \E lag \in Lags : \E us \in Us :
          create_alert(ReplicaRegions[i], lag, us)
    /\ pc' = "idle"
    /\ UNCHANGED frame

CallPrintStatus ==
    /\ Outside
    /\ \E i \in 1..Len(history) : print_status(history[i], "idle")
    /\ UNCHANGED frame

(* run_monitoring(d) is entered; it leaves by its return (done, aborted) or
   by the exception of the method that raised (crashed). *)
CallRunMonitoring(Ds) ==
    /\ Outside
    /\ \E d \in Ds : duration' = d
    /\ pc' = "start"
    /\ UNCHANGED <<connections, history, alerts, primary, now, start_time,
                   iteration, status, ret, calls, out>>

----------------------------------------------------------------------------
(* Specifications *)

Init ==
    /\ Fresh
    /\ pc = "idle"
    /\ duration = 0

(* The statements of a run_monitoring in progress. *)
RunNext == RunStep(FewOks, FALSE, SameClocks)

Next ==
    \/ CallConnectAll(FewOks)
    \/ CallSetupPrimary
    \/ CallSimulateWrites({WritesPerTick})
    \/ CallCheck(FALSE, SameClocks)
    \/ CallCreateAlert({LagThreshold}, Micros)
    \/ CallPrintStatus
    \/ CallRunMonitoring(ShortDurations)
    \/ RunNext

Spec == Init /\ [][Next]_vars

NextOps ==
    \/ CallConnectAll(AllOks)
    \/ CallSetupPrimary
    \/ CallSimulateWrites(WriteCounts)
    \/ CallCheck(TRUE, OffClocks)
    \/ CallCreateAlert(AlertLags, OffSecond)
    \/ CallPrintStatus

SpecOps == Init /\ [][NextOps]_vars

(* run_monitoring, called any number of times, among the calls that change
   what its course depends on: the connections and the history.  One thread:
   once run_monitoring is entered, the statement it is at is executed.
   Nothing obliges a caller to make a call. *)
RunFair == RunStep(FewOks, FALSE, OffClocks)

NextRuns ==
    \/ CallConnectAll(FewOks)
    \/ CallCheck(FALSE, OffClocks)
    \/ CallRunMonitoring(Durations)
    \/ RunFair

LiveSpec == Init /\ [][NextRuns]_vars /\ WF_vars(RunFair)

----------------------------------------------------------------------------
(* Vocabulary of the properties.  A step is a method call when `calls`
   grows; `ret` then holds the call.  In a step that polls, connections and
   primary are left alone, so their unprimed values are those the poll saw. *)

PollOp == "check_replication_status"

PollStep == calls' = calls + 1 /\ ret'.op = PollOp

AnswerOf(i) == ret'.args.replicas[ReplicaRegions[i]]

(* The poll obtained a cursor on the i-th replica and ran its queries. *)
Queried(i) ==
    /\ ReplicaRead(i, connections, primary, ret'.args.primary, ret'.args.replicas)
    /\ AnswerOf(i).cursor_ok

Answered(i) == Queried(i) /\ AnswerOf(i).query_ok

LagOf(i) == SelectCount(primary) - AnswerOf(i).count

NewAlertsFor(region) ==
    {k \in (Len(alerts) + 1)..Len(alerts') : alerts'[k].region = region}

IsPrefix(a, b) == Len(a) <= Len(b) /\ SubSeq(b, 1, Len(a)) = a

IsError(entry) == "error" \in DOMAIN entry

Polled == ret.op = PollOp /\ ~ret.raised

(* C1: in every poll, a replica whose queries succeed with
   lag_records = primary.record_count - replica.record_count >= 10 gets a
   status entry with is_healthy = FALSE, and the poll appends exactly one
   alert for that replica, with lag_count = lag_records. *)
C1_LaggingReplicaAlerted ==
    [][PollStep =>
        \A i \in 1..Len(ReplicaRegions) :
            (Answered(i) /\ LagOf(i) >= LagThreshold) =>
                /\ Len(ret'.value.replicas) >= i
                /\ ret'.value.replicas[i].region = ReplicaRegions[i]
                /\ ret'.value.replicas[i].lag_records = LagOf(i)
                /\ ret'.value.replicas[i].is_healthy = FALSE
                /\ Cardinality(NewAlertsFor(ReplicaRegions[i])) = 1
                /\ \A k \in NewAlertsFor(ReplicaRegions[i]) :
                      alerts'[k].lag_count = LagOf(i)]_vars

(* C1 witness: primary 1000 rows, us-east 990: lag 10, unhealthy, and the one
   alert of the poll is a WARNING for us-east with lag_count 10. *)
C1_Witness ==
    /\ Polled
    /\ ret.value.primary.record_count = 1000
    /\ ~IsError(ret.value.replicas[1])
    /\ ret.value.replicas[1].record_count = 990
    /\ ret.value.replicas[1].lag_records = 10
    /\ ~ret.value.replicas[1].is_healthy
    /\ Len(alerts) = 1
    /\ alerts[1].region = "us-east"
    /\ alerts[1].lag_count = 10
    /\ alerts[1].severity = "WARNING"

(* C2: create_alert(region, lag) appends exactly one alert, for that region
   and lag, WARNING when lag < 50 and CRITICAL when lag >= 50; and every
   alert in the list has severity WARNING exactly when its lag_count < 50. *)
C2_SeverityByLag ==
    [][/\ (calls' = calls + 1 /\ ret'.op = "create_alert") =>
            /\ Len(alerts') = Len(alerts) + 1
            /\ SubSeq(alerts', 1, Len(alerts)) = alerts
            /\ alerts'[Len(alerts')].region = ret'.args[1]
            /\ alerts'[Len(alerts')].lag_count = ret'.args[2]
            /\ alerts'[Len(alerts')].severity =
                  (IF ret'.args[2] < 50 THEN "WARNING" ELSE "CRITICAL")
       /\ \A k \in 1..Len(alerts') :
            /\ alerts'[k].severity \in {"WARNING", "CRITICAL"}
            /\ alerts'[k].severity = "WARNING" <=> alerts'[k].lag_count < 50
      ]_vars

(* C2 witness: a poll with primary 1000 and a replica at 940 made a CRITICAL
   alert with lag_count 60, and create_alert with lag 49 then made a
   WARNING. *)
C2_Witness ==
    /\ ret.op = "create_alert"
    /\ ret.args[2] = 49
    /\ Len(alerts) = 3
    /\ alerts[1].lag_count = 60 /\ alerts[1].severity = "CRITICAL"
    /\ alerts[2].lag_count = 50 /\ alerts[2].severity = "CRITICAL"
    /\ alerts[3].lag_count = 49 /\ alerts[3].severity = "WARNING"
    /\ Len(history) = 1
    /\ history[1].primary.record_count = 1000
    /\ history[1].replicas[1].record_count = 940

(* The poll met no failure outside the per-replica try: every replica has a
   connection, and every cursor() and close() worked. *)
OnlyQueryFailures ==
    \A j \in 1..Len(ReplicaRegions) :
        /\ ReplicaRegions[j] \in connections
        /\ AnswerOf(j).cursor_ok
        /\ AnswerOf(j).close_ok

(* C3: in a poll, a replica whose query fails gets a status entry with an
   error field and is_healthy = FALSE; the failure does not end the poll:
   when nothing fails outside the try, every replica gets its entry and the
   snapshot is returned and appended to history. *)
C3_QueryFailureRecorded ==
    [][PollStep =>
        \A i \in 1..Len(ReplicaRegions) :
            (Queried(i) /\ ~AnswerOf(i).query_ok) =>
                /\ Len(ret'.value.replicas) >= i
                /\ ret'.value.replicas[i].region = ReplicaRegions[i]
                /\ IsError(ret'.value.replicas[i])
                /\ ret'.value.replicas[i].is_healthy = FALSE
                /\ NewAlertsFor(ReplicaRegions[i]) = {}
                /\ OnlyQueryFailures =>
                      /\ ~ret'.raised
                      /\ Len(ret'.value.replicas) = Len(ReplicaRegions)
                      /\ \A j \in 1..Len(ReplicaRegions) :
                            /\ ret'.value.replicas[j].region = ReplicaRegions[j]
                            /\ IsError(ret'.value.replicas[j])
                                  <=> ~AnswerOf(j).query_ok
                      /\ history' = Append(history, ret'.value)]_vars

(* C3 witness: the first replica's query failed, the second was still
   polled and is lagging, and the snapshot is the last of history. *)
C3_Witness ==
    /\ Polled
    /\ Len(ret.value.replicas) = 2
    /\ IsError(ret.value.replicas[1])
    /\ ~ret.value.replicas[1].is_healthy
    /\ ~IsError(ret.value.replicas[2])
    /\ ret.value.replicas[2].lag_records = 10
    /\ Len(history) >= 1
    /\ history[Len(history)] = ret.value

(* C4: a connect_all of which one endpoint fails returns FALSE, and returns
   TRUE only if every endpoint connected; when run_monitoring's connect_all
   had a failing endpoint the run returns at once: no other method is
   called, and history, alerts and the tables are left as they were.
   (False: see C4_StaleConnection.) *)
C4_AbortOnPartialConnect ==
    [][(calls' = calls + 1 /\ ret'.op = "connect_all") =>
          /\ ret'.value = (\A r \in Regions : ret'.args[r])
          /\ (pc = "start" /\ \E r \in Regions : ~ret'.args[r]) =>
                /\ pc' = "aborted"
                /\ history' = history
                /\ alerts' = alerts
                /\ primary' = primary
                /\ out' = out
      ]_vars

(* The state C4 excludes: run_monitoring goes on to seed the primary after a
   connect_all in which an endpoint failed; the monitor still held the
   connection an earlier connect_all had opened to it. *)
C4_StaleConnection ==
    /\ pc = "seed"
    /\ ret.op = "connect_all"
    /\ ret.value
    /\ \E r \in Regions : ~ret.args[r]

(* C5: in every poll, a replica whose queries succeed with lag_records < 10
   gets a status entry with is_healthy = TRUE and no alert; lag_records is
   the plain difference, negative when the replica has more rows, and equal
   counts and max ids give lag_records = 0 and lag_ids = 0. *)
C5_SmallLagHealthy ==
    [][PollStep =>
        \A i \in 1..Len(ReplicaRegions) :
            (Answered(i) /\ LagOf(i) < LagThreshold) =>
                /\ Len(ret'.value.replicas) >= i
                /\ ret'.value.replicas[i].region = ReplicaRegions[i]
                /\ ret'.value.replicas[i].lag_records = LagOf(i)
                /\ ret'.value.replicas[i].is_healthy = TRUE
                /\ NewAlertsFor(ReplicaRegions[i]) = {}
                /\ (/\ AnswerOf(i).count = SelectCount(primary)
                    /\ AnswerOf(i).max_id = SelectMaxId(primary)) =>
                      /\ ret'.value.replicas[i].lag_records = 0
                      /\ ret'.value.replicas[i].lag_ids = 0]_vars

(* C5 witness: a poll returned with one replica ahead of the primary
   (negative lag) and one level with it, both healthy, and no alert. *)
C5_Witness ==
    /\ Polled
    /\ Len(ret.value.replicas) = 2
    /\ ~IsError(ret.value.replicas[1]) /\ ~IsError(ret.value.replicas[2])
    /\ ret.value.replicas[1].lag_records < 0
    /\ ret.value.replicas[1].is_healthy
    /\ ret.value.replicas[2].lag_records = 0
    /\ ret.value.replicas[2].lag_ids = 0
    /\ ret.value.replicas[2].record_count > 0
    /\ ret.value.replicas[2].is_healthy
    /\ alerts = <<>>

(* Positions of run_monitoring: before its loop, inside it before and after
   the tick's poll, and at its end. *)
BeforeLoop == {"start", "seed", "grace"}
BeforePoll == {"write", "poll"}
AfterPoll == {"report", "sleep", "loop", "summary", "done"}
Running == BeforeLoop \cup BeforePoll \cup AfterPoll

(* The polls the run at position p of tick n has made. *)
PollsMade(p, n) ==
    IF p \in BeforePoll THEN n - 1 ELSE IF p \in AfterPoll THEN n ELSE 0

(* C6: in run_monitoring's loop, even ticks write 5 rows and odd ticks
   none, the writes before the tick's poll; every tick appends one snapshot;
   a report is printed on the even ticks only, of the tick's snapshot; the
   summary's count of metrics is the length of history: the snapshots it
   held when run_monitoring was called plus the ticks executed. *)
C6_TicksAlternate ==
    /\ [](pc = "write" =>
             /\ iteration % 2 = 0
             /\ primary.count = WritesPerTick * ((iteration \div 2) - 1))
    /\ [](pc \in {"poll"} \cup AfterPoll =>
             primary.count = WritesPerTick * (iteration \div 2))
    /\ [][(pc = "loop" /\ iteration' = iteration + 1) =>
             pc' = IF iteration' % 2 = 0 THEN "write" ELSE "poll"]_vars
    /\ [][(pc \in Running \ {"done"} /\ pc' \in Running) =>
             Len(history') - PollsMade(pc', iteration')
                = Len(history) - PollsMade(pc, iteration)]_vars
    /\ [](pc \in AfterPoll =>
             /\ Len(history) >= iteration
             /\ \A k \in 1..iteration :
                   history[Len(history) - iteration + k].primary.record_count
                      = WritesPerTick * (k \div 2))
    /\ [][(pc = "poll" /\ pc' \in Running) =>
             pc' = IF iteration % 2 = 0 THEN "report" ELSE "sleep"]_vars
    /\ [](pc = "report" => iteration % 2 = 0 /\ status = history[Len(history)])
    /\ [][(pc \in Running \ {"done"}) =>
             out.reports' = out.reports + (IF pc = "report" THEN 1 ELSE 0)]_vars
    /\ [](pc = "done" =>
             out.last.block = "summary" /\ out.last.metrics = Len(history))

(* C6 as stated: the summary's count of metrics is the number of ticks the
   run executed.  (False on a monitor that has polled before the run.) *)
C6_MetricsAreTicks ==
    pc = "done" => (out.last.block = "summary" /\ out.last.metrics = iteration)

(* C6 witness: a run of three ticks on a monitor that held one snapshot has
   ended: the second tick wrote, the primary has 5 rows, one report was
   printed, and the summary counts four metrics. *)
C6_Witness ==
    /\ pc = "done"
    /\ iteration = 3
    /\ Len(history) = 4
    /\ history[2].primary.record_count = 0
    /\ history[3].primary.record_count = 5
    /\ history[4].primary.record_count = 5
    /\ primary.count = 5
    /\ out.reports = 1
    /\ out.last.metrics = 4

(* C7: every step leaves history and alerts as they are or appends at the
   end; print_status changes neither list nor the snapshot it is given. *)
C7_AppendOnly ==
    [][/\ IsPrefix(history, history')
       /\ IsPrefix(alerts, alerts')
       /\ (calls' = calls + 1 /\ ret'.op = "print_status") =>
             /\ history' = history
             /\ alerts' = alerts
             /\ status' = status
             /\ \E k \in 1..Len(history') : history'[k] = ret'.args
      ]_vars

(* C7 witness: a snapshot with a lagging replica was reported while the
   alert list held its alert. *)
C7_Witness ==
    /\ ret.op = "print_status"
    /\ Len(history) >= 1
    /\ Len(alerts) >= 1
    /\ out.reports >= 1
    /\ out.last.block = "status"
    /\ \E i \in 1..Len(out.last.replicas) : out.last.replicas[i].label = "LAGGING"

(* C8: a setup_primary call that returns leaves 1000 rows in transactions
   and none in replication_test, whatever the tables held before, and
   calling it again at once leaves that state as it is. *)
C8_SeedIdempotent ==
    (ret.op = "setup_primary" /\ ~ret.raised) =>
        /\ primary.exists
        /\ primary.txn = 1000
        /\ primary.count = 0
        /\ SelectMaxId(primary) = SqlNull
        /\ SetupResult(connections, primary, TRUE) =
              [raised |-> FALSE, primary |-> primary]

(* C8 witness: setup_primary returned for the second time in a row. *)
C8_Witness ==
    /\ ret.op = "setup_primary" /\ ~ret.raised
    /\ ret.args.before = SeedTables
    /\ primary = SeedTables
    /\ calls >= 3


(* C9: run_monitoring returns.  A tick starts only while the time elapsed
   since the loop began is below duration, and each tick's sleep moves the
   clock on, so the loop ends; unless a connection failed (aborted) or a
   method raised (crashed), the run then prints its summary (metrics
   collected, total alerts, last 5 alerts) once and is done. *)
C9_RunReturns ==
    /\ [][iteration' # iteration =>
             \/ pc = "grace" /\ iteration' = 0
             \/ /\ pc = "loop"
                /\ iteration' = iteration + 1
                /\ now - start_time < duration]_vars
    /\ [][(pc = "loop" /\ now - start_time >= duration) => pc' = "summary"]_vars
    /\ [][pc = "sleep" => now' >= now + TickSleep]_vars
    /\ [](pc = "aborted" => (ret.op = "connect_all" /\ ~ret.value))
    /\ [](pc = "crashed" => ret.raised)
    /\ [][out.summaries' # out.summaries =>
             /\ pc = "summary" /\ pc' = "done"
             /\ out.summaries' = out.summaries + 1]_vars
    /\ [][(pc' = "done" /\ pc # "done") => pc = "summary"]_vars
    /\ [][pc = "summary" => pc' = "done"]_vars
    /\ [](pc = "done" =>
             /\ out.summaries >= 1
             /\ out.last = FormatSummary(duration, history, alerts)
             /\ out.last.metrics = Len(history)
             /\ out.last.total = Len(alerts)
             /\ Len(out.last.tail) = IF Len(alerts) < 5 THEN Len(alerts) ELSE 5
             /\ now - start_time >= duration)
    /\ (pc \in Running \ {"done"}) ~> (pc \in Returned)

(* C9 witness: a run of several ticks is done, its summary printed. *)
C9_Witness ==
    /\ pc = "done"
    /\ duration = MaxDuration
    /\ iteration >= 3
    /\ out.summaries = 1
    /\ out.last.block = "summary"
    /\ out.last.total >= 1

(* Replica entries of the snapshots of `hist` with no error field and
   is_healthy = FALSE. *)
UnhealthyIn(st) ==
    Cardinality({i \in 1..Len(st.replicas) :
                    ~IsError(st.replicas[i]) /\ ~st.replicas[i].is_healthy})

RECURSIVE Unhealthy(_)
Unhealthy(hist) ==
    IF hist = <<>> THEN 0
    ELSE Unhealthy(SubSeq(hist, 1, Len(hist) - 1)) + UnhealthyIn(hist[Len(hist)])

(* C10: alerts and history stay consistent over polls, also over polls that
   end in an exception: a poll adds as many alerts as it adds replica
   entries with no error field and is_healthy = FALSE to the history, so
   that after any sequence of polls the two numbers are equal.  (False: see
   C10_OrphanAlert.) *)
C10_AlertsMatchHistory ==
    [][PollStep =>
          Len(alerts') - Len(alerts) = Unhealthy(history') - Unhealthy(history)
      ]_vars

(* The state C10 excludes: a poll raised after it had appended an alert, and
   its snapshot is not in history. *)
C10_OrphanAlert ==
    /\ ret.op = PollOp /\ ret.raised
    /\ history = <<>>
    /\ Len(alerts) = 1

====
